---- MODULE Spec2Model ----
(***************************************************************************)
(* Model of abstract_level_analyzer.py: the sentence splitter, the        *)
(* few-shot example loader, the per-sentence classifier call, the          *)
(* analyze_text loop and the ASCII graph printer.                          *)
(*                                                                         *)
(* A Python str is modelled as a sequence of one-character strings.  The   *)
(* non-ASCII characters of the source are written by code point:           *)
(*   "U+3002" ideographic full stop, "U+FF0E" fullwidth full stop,         *)
(*   "U+FF01" fullwidth exclamation mark, "U+FF1F" fullwidth question mark.*)
(***************************************************************************)
EXTENDS Integers, Sequences, FiniteSets, TLC

VARIABLES
    pc,                 \* position of the running function
    text,               \* the argument of split_into_sentences / analyze_text
    sentences,          \* split_into_sentences' result (analyze_text: of the current paragraph)
    paragraphs,         \* analyze_text: the stripped non-blank lines
    p_idx,              \* analyze_text: enumerate(paragraphs, start=1) counter
    s_idx,              \* analyze_text: position in the inner for loop
    results,            \* analyze_text / _print_ascii_graph: the list of result records
    calls,              \* log of the requests sent to the classifier, in order
    returned,           \* what the caller (main) received from analyze_text
    fewshot_file,       \* the state of fewshot.json next to the module
    FEW_SHOT_EXAMPLES,  \* the module global set at import time
    prompt,             \* the user message analyze_sentence builds
    output,             \* lines printed by the current _print_ascii_graph call
    prev_output         \* lines printed by the previous _print_ascii_graph call

vars == <<pc, text, sentences, paragraphs, p_idx, s_idx, results, calls, returned,
          fewshot_file, FEW_SHOT_EXAMPLES, prompt, output, prev_output>>

NONE == "None"

(***************************************************************************)
(* Bounds of the model.                                                    *)
(***************************************************************************)
MaxLen == 4        \* longest text given to split_into_sentences

(***************************************************************************)
(* Strings.                                                                *)
(***************************************************************************)
\* characters str.strip() removes and \s matches
WHITESPACE == {" ", "\t", "\n", "\r"}

\* the character class [。．.!?] of the regex in split_into_sentences
TERMINATORS == {"U+3002", "U+FF0E", ".", "!", "?"}

RECURSIVE lstrip(_)
lstrip(s) == IF s = <<>> \/ Head(s) \notin WHITESPACE THEN s ELSE lstrip(Tail(s))

RECURSIVE rstrip(_)
rstrip(s) ==
    IF s = <<>> \/ s[Len(s)] \notin WHITESPACE THEN s ELSE rstrip(SubSeq(s, 1, Len(s) - 1))

\* a strip that forgets the trailing whitespace
strip_left_only(s) == lstrip(s)

strip(s) == rstrip(lstrip(s))

\* first index >= i of t that holds no whitespace (Len(t)+1 if none): the end of a \s* match
RECURSIVE SkipWhitespace(_, _)
SkipWhitespace(t, i) ==
    IF i > Len(t) \/ t[i] \notin WHITESPACE THEN i ELSE SkipWhitespace(t, i + 1)

\* re.split of (?<=[。．.!?])\s* : the pattern matches after every terminator
\* and consumes the whitespace that follows; the text after the last match,
\* empty or not, is the last piece.
RECURSIVE ReSplit(_, _, _)
ReSplit(t, i, start) ==
    IF i > Len(t) THEN <<SubSeq(t, start, Len(t))>>
    ELSE IF t[i] \in TERMINATORS
         THEN LET j == SkipWhitespace(t, i + 1)
              IN  <<SubSeq(t, start, i)>> \o ReSplit(t, j, j)
         ELSE ReSplit(t, i + 1, start)

\* the split of a pattern without the lookbehind, [。．.!?]\s* : the
\* terminator is part of the separator and is lost
RECURSIVE ReSplitConsuming(_, _, _)
ReSplitConsuming(t, i, start) ==
    IF i > Len(t) THEN <<SubSeq(t, start, Len(t))>>
    ELSE IF t[i] \in TERMINATORS
         THEN LET j == SkipWhitespace(t, i + 1)
              IN  <<SubSeq(t, start, i - 1)>> \o ReSplitConsuming(t, j, j)
         ELSE ReSplitConsuming(t, i + 1, start)

split_without_lookbehind(t) == ReSplitConsuming(t, 1, 1)

sentence_endings_split(t) == ReSplit(t, 1, 1)

\* [s.strip() for s in sentences if s.strip()]
RECURSIVE StripNonEmpty(_)
StripNonEmpty(ps) ==
    IF ps = <<>> THEN <<>>
    ELSE IF strip(Head(ps)) = <<>> THEN StripNonEmpty(Tail(ps))
         ELSE <<strip(Head(ps))>> \o StripNonEmpty(Tail(ps))

split_into_sentences(t) == StripNonEmpty(sentence_endings_split(strip(t)))

(***************************************************************************)
(* Specification of split_into_sentences on bounded texts.                 *)
(***************************************************************************)
SegAlphabet == {"a", " ", ".", "!", "?", "U+3002", "U+FF0E", "U+FF01", "U+FF1F"}

Strings(A, n) == UNION {[1..k -> A] : k \in 0..n}

Idle ==
    /\ paragraphs = <<>> /\ p_idx = 0 /\ s_idx = 0 /\ results = <<>> /\ calls = <<>>
    /\ returned = NONE /\ fewshot_file = NONE /\ FEW_SHOT_EXAMPLES = <<>>
    /\ prompt = <<>> /\ output = <<>> /\ prev_output = NONE

InitSeg ==
    /\ pc = "split"
    /\ text \in Strings(SegAlphabet, MaxLen)
    /\ sentences = <<>>
    /\ Idle

Segment ==
    /\ pc = "split"
    /\ sentences' = split_into_sentences(text)
    /\ pc' = "split_done"
    /\ UNCHANGED <<text, paragraphs, p_idx, s_idx, results, calls, returned,
                   fewshot_file, FEW_SHOT_EXAMPLES, prompt, output, prev_output>>

NextSeg == Segment

SpecSeg == InitSeg /\ [][NextSeg]_vars

(***************************************************************************)
(* Properties of split_into_sentences.                                     *)
(***************************************************************************)
NonWhitespaceAt(t) == {i \in 1..Len(t) : t[i] \notin WHITESPACE}

SetMin(S) == CHOOSE m \in S : \A n \in S : m <= n
SetMax(S) == CHOOSE m \in S : \A n \in S : n <= m

\* t from its first to its last non-whitespace character
Trimmed(t) ==
    IF NonWhitespaceAt(t) = {} THEN <<>>
    ELSE SubSeq(t, SetMin(NonWhitespaceAt(t)), SetMax(NonWhitespaceAt(t)))

IsNotWhitespace(c) == c \notin WHITESPACE

WithoutWhitespace(t) == SelectSeq(t, IsNotWhitespace)

RECURSIVE Concat(_)
Concat(ss) == IF ss = <<>> THEN <<>> ELSE Head(ss) \o Concat(Tail(ss))

\* the marks the specification calls terminal punctuation: the ASCII and the
\* full-width period, exclamation mark and question mark
ClaimMarks == {".", "!", "?", "U+3002", "U+FF0E", "U+FF01", "U+FF1F"}

MarkCount(t) == Cardinality({i \in 1..Len(t) : t[i] \in ClaimMarks})

\* C4: a text with no terminal punctuation mark yields exactly one sentence,
\* the text without its leading and trailing whitespace; a text that is empty
\* or all whitespace yields the empty sequence.
C4_NoTerminatorOneSentence ==
    (pc = "split_done" /\ \A i \in 1..Len(text) : text[i] \notin TERMINATORS)
        => sentences = IF NonWhitespaceAt(text) = {} THEN <<>> ELSE <<Trimmed(text)>>

C4_Witness ==
    /\ pc = "split_done"
    /\ \A i \in 1..Len(text) : text[i] \notin TERMINATORS
    /\ Len(text) >= 3
    /\ text[1] \in WHITESPACE
    /\ text[Len(text)] \in WHITESPACE
    /\ Len(sentences) = 1
    /\ Len(sentences[1]) = Len(text) - 2

\* C5: a sentence ends after every occurrence of a terminal punctuation mark
\* (ASCII or full-width period, exclamation mark, question mark), the mark
\* being the last character of its sentence: a text of n pieces, each ending
\* in one such mark, yields exactly n sentences.
C5_SentenceEndsAfterEveryMark ==
    (pc = "split_done" /\ text # <<>> /\ text[Len(text)] \in ClaimMarks)
        => /\ Len(sentences) = MarkCount(text)
           /\ \A k \in 1..Len(sentences) :
                /\ sentences[k][Len(sentences[k])] \in ClaimMarks
                /\ MarkCount(sentences[k]) = 1

\* C6: the sentences, concatenated in order and with whitespace removed, are
\* the text with whitespace removed; no sentence is empty or starts or ends
\* with whitespace.
C6_ContentPreserved ==
    pc = "split_done"
        => /\ WithoutWhitespace(Concat(sentences)) = WithoutWhitespace(text)
           /\ \A k \in 1..Len(sentences) :
                /\ sentences[k] # <<>>
                /\ sentences[k][1] \notin WHITESPACE
                /\ sentences[k][Len(sentences[k])] \notin WHITESPACE

C6_Witness ==
    /\ pc = "split_done"
    /\ Len(sentences) >= 2
    /\ \E i \in 2..(Len(text) - 1) : text[i] \in WHITESPACE /\ text[i - 1] \in TERMINATORS
    /\ Len(Concat(sentences)) < Len(text)

(***************************************************************************)
(* analyze_sentence: the classifier's answer and its parsing.              *)
(***************************************************************************)
DIGITS == {"0", "1", "2", "3", "4", "5", "6", "7", "8", "9"}

\* int() of one digit character
DigitValue(c) ==
    CASE c = "0" -> 0 [] c = "1" -> 1 [] c = "2" -> 2 [] c = "3" -> 3 [] c = "4" -> 4
      [] c = "5" -> 5 [] c = "6" -> 6 [] c = "7" -> 7 [] c = "8" -> 8 [] c = "9" -> 9

\* re.search(r"(\d)", content): the index of the first digit, 0 when there is none
RECURSIVE SearchDigit(_, _)
SearchDigit(content, i) ==
    IF i > Len(content) THEN 0
    ELSE IF content[i] \in DIGITS THEN i ELSE SearchDigit(content, i + 1)

\* The outcome of analyze_sentence for one reply of the service.  reply is
\* either RAISES (the request itself raised) or the message content.  Every
\* exception inside the try block, the AttributeError of .group on a failed
\* search included, leaves as RuntimeError.
RAISES == "raises"

ParseLevel(reply) ==
    IF reply = RAISES THEN [ok |-> FALSE, level |-> NONE]
    ELSE LET content == strip(reply)
             m == SearchDigit(content, 1)
         IN  IF m = 0 THEN [ok |-> FALSE, level |-> NONE]
             ELSE [ok |-> TRUE, level |-> DigitValue(content[m])]

\* replies of the service the model draws from
Replies ==
    { RAISES, <<>>, <<"x">>, <<"0">>, <<" ", "3", "\n">>,
      <<"x", "5", "2">>, <<"7", "1">> }

(***************************************************************************)
(* The few-shot examples.  A str is a sequence of pieces here: the fixed   *)
(* parts of the f-string and the formatted values.                         *)
(***************************************************************************)
\* f"文: {sentence}\nレベル: {level}\n"
ExampleText(sentence, level) == <<"bun: ", sentence, "\n", "reberu: ", level, "\n">>

\* the literal returned when fewshot.json does not exist
BUILTIN_EXAMPLES ==
    ExampleText("builtin-1", "1") \o ExampleText("builtin-2", "2")
        \o ExampleText("builtin-3", "3") \o ExampleText("builtin-4", "4")
        \o ExampleText("builtin-5", "5")

\* FEW_SHOT_EXAMPLES + f"文: {sentence}\nレベル:"
UserMessage(examples, sentence) == examples \o <<"bun: ", sentence, "\n", "reberu:">>

(***************************************************************************)
(* analyze_text.                                                           *)
(***************************************************************************)
MaxTextLen == 4    \* longest text given to analyze_text

LINE_BOUNDARIES == {"\n", "\r"}

\* str.splitlines(): "\r\n" is one boundary; no empty last line after a final boundary
RECURSIVE SplitLines(_, _, _)
SplitLines(t, i, start) ==
    IF i > Len(t) THEN (IF start <= Len(t) THEN <<SubSeq(t, start, Len(t))>> ELSE <<>>)
    ELSE IF t[i] = "\r" /\ i < Len(t) /\ t[i + 1] = "\n"
         THEN <<SubSeq(t, start, i - 1)>> \o SplitLines(t, i + 2, i + 2)
    ELSE IF t[i] \in LINE_BOUNDARIES
         THEN <<SubSeq(t, start, i - 1)>> \o SplitLines(t, i + 1, i + 1)
    ELSE SplitLines(t, i + 1, start)

splitlines(t) == SplitLines(t, 1, 1)

\* [p.strip() for p in text.splitlines()], blank lines kept
RECURSIVE StripAll(_)
StripAll(ps) == IF ps = <<>> THEN <<>> ELSE <<strip(Head(ps))>> \o StripAll(Tail(ps))

ParagraphsKeepingBlank(t) == StripAll(splitlines(t))

\* [p.strip() for p in text.splitlines() if p.strip()]
Paragraphs(t) == StripNonEmpty(splitlines(t))

\* results.append(...) with the result put first instead
InsertFirst(rs, r) == <<r>> \o rs

\* results.append({"sentence": ..., "level": ..., "paragraph": ...})
AppendResult(rs, r) == Append(rs, r)

TextAlphabet == {"a", " ", ".", "\n", "\r"}

InitAnalyze ==
    /\ pc = "analyze"
    /\ text \in Strings(TextAlphabet, MaxTextLen)
    /\ sentences = <<>> /\ paragraphs = <<>> /\ p_idx = 0 /\ s_idx = 0
    /\ results = <<>> /\ calls = <<>> /\ returned = NONE
    /\ fewshot_file = NONE /\ FEW_SHOT_EXAMPLES = BUILTIN_EXAMPLES
    /\ prompt = <<>> /\ output = <<>> /\ prev_output = NONE

\* lines 81-82: the paragraphs and the empty result list
AnalyzeStart ==
    /\ pc = "analyze"
    /\ paragraphs' = Paragraphs(text)
    /\ results' = <<>>
    /\ p_idx' = 1
    /\ pc' = "for_paragraph"
    /\ UNCHANGED <<text, sentences, s_idx, calls, returned, fewshot_file,
                   FEW_SHOT_EXAMPLES, prompt, output, prev_output>>

\* lines 83-84: the next paragraph is split
ForParagraph ==
    /\ pc = "for_paragraph"
    /\ p_idx <= Len(paragraphs)
    /\ sentences' = split_into_sentences(paragraphs[p_idx])
    /\ s_idx' = 1
    /\ pc' = "for_sentence"
    /\ UNCHANGED <<text, paragraphs, p_idx, results, calls, returned, fewshot_file,
                   FEW_SHOT_EXAMPLES, prompt, output, prev_output>>

\* the loop body with an except that skips the sentence and goes on
ClassifySentenceSkippingErrors ==
    /\ pc = "for_sentence"
    /\ s_idx <= Len(sentences)
    /\ \E reply \in Replies :
         LET sentence == sentences[s_idx]
             r == ParseLevel(reply)
         IN  /\ prompt' = UserMessage(FEW_SHOT_EXAMPLES, sentence)
             /\ calls' = Append(calls, [sentence |-> sentence, ok |-> r.ok, level |-> r.level])
             /\ results' = IF r.ok
                           THEN AppendResult(results, [sentence |-> sentence, level |-> r.level,
                                                       paragraph |-> p_idx])
                           ELSE results
             /\ s_idx' = s_idx + 1
             /\ pc' = pc
    /\ UNCHANGED <<text, sentences, paragraphs, p_idx, returned, fewshot_file,
                   FEW_SHOT_EXAMPLES, output, prev_output>>

\* lines 85-87 with analyze_sentence (58-76): one request for the current
\* sentence; its level is appended, or the RuntimeError leaves analyze_text
ClassifySentence ==
    /\ pc = "for_sentence"
    /\ s_idx <= Len(sentences)
    /\ \E reply \in Replies :
         LET sentence == sentences[s_idx]
             r == ParseLevel(reply)
         IN  /\ prompt' = UserMessage(FEW_SHOT_EXAMPLES, sentence)
             /\ calls' = Append(calls, [sentence |-> sentence, ok |-> r.ok, level |-> r.level])
             /\ IF r.ok
                THEN /\ results' = AppendResult(results, [sentence |-> sentence, level |-> r.level,
                                                          paragraph |-> p_idx])
                     /\ s_idx' = s_idx + 1
                     /\ pc' = pc
                ELSE /\ pc' = "raised"
                     /\ UNCHANGED <<results, s_idx>>
    /\ UNCHANGED <<text, sentences, paragraphs, p_idx, returned, fewshot_file,
                   FEW_SHOT_EXAMPLES, output, prev_output>>

\* line 85 exhausted: back to the outer loop
EndParagraph ==
    /\ pc = "for_sentence"
    /\ s_idx > Len(sentences)
    /\ p_idx' = p_idx + 1
    /\ pc' = "for_paragraph"
    /\ UNCHANGED <<text, sentences, paragraphs, s_idx, results, calls, returned,
                   fewshot_file, FEW_SHOT_EXAMPLES, prompt, output, prev_output>>

\* line 88: return results
AnalyzeReturn ==
    /\ pc = "for_paragraph"
    /\ p_idx > Len(paragraphs)
    /\ returned' = results
    /\ pc' = "returned"
    /\ UNCHANGED <<text, sentences, paragraphs, p_idx, s_idx, results, calls,
                   fewshot_file, FEW_SHOT_EXAMPLES, prompt, output, prev_output>>

\* main, lines 135-138: the exception ends the program through parser.error;
\* `results` of main is never bound
MainError ==
    /\ pc = "raised"
    /\ pc' = "exit"
    /\ UNCHANGED <<text, sentences, paragraphs, p_idx, s_idx, results, calls, returned,
                   fewshot_file, FEW_SHOT_EXAMPLES, prompt, output, prev_output>>

NextAnalyze ==
    \/ AnalyzeStart
    \/ ForParagraph
    \/ ClassifySentence
    \/ EndParagraph
    \/ AnalyzeReturn
    \/ MainError

SpecAnalyze == InitAnalyze /\ [][NextAnalyze]_vars

(***************************************************************************)
(* Properties of analyze_text.                                             *)
(***************************************************************************)
HasContent(line) == NonWhitespaceAt(line) # {}

\* the lines of t that are not blank, in input order
NonBlankLines(t) == SelectSeq(splitlines(t), HasContent)

\* the sentences of the lines from the k-th on, each with its line's number
RECURSIVE ReadingOrder(_, _)
ReadingOrder(lines, k) ==
    IF k > Len(lines) THEN <<>>
    ELSE LET ss == split_into_sentences(lines[k])
         IN  [i \in 1..Len(ss) |-> [sentence |-> ss[i], paragraph |-> k]]
                \o ReadingOrder(lines, k + 1)

Document == ReadingOrder(NonBlankLines(text), 1)

SentencesOf(rs) == [i \in 1..Len(rs) |-> rs[i].sentence]

\* C1: every level of a result is one of 1..5; a reply whose first digit is
\* 0 or 6..9, or that holds no digit, makes the classification fail.
C1_LevelsInRange ==
    /\ \A i \in 1..Len(results) : results[i].level \in 1..5
    /\ returned # NONE => \A i \in 1..Len(returned) : returned[i].level \in 1..5

\* C2: a failed classification is the last call ever made, it is the call
\* for the next sentence in reading order, and the caller receives no result
\* sequence; a result sequence is returned only when no call failed.
C2_FailFastAllOrNothing ==
    /\ Len(calls) <= Len(Document)
    /\ \A i \in 1..Len(calls) :
         /\ calls[i].sentence = Document[i].sentence
         /\ ~calls[i].ok => /\ i = Len(calls)
                            /\ pc \in {"raised", "exit"}
                            /\ returned = NONE
    /\ pc \in {"raised", "exit"} =>
         /\ returned = NONE
         /\ calls # <<>>
         /\ ~calls[Len(calls)].ok
         /\ Len(results) = Len(calls) - 1

C2_Witness ==
    /\ pc = "exit"
    /\ Len(calls) >= 2
    /\ Len(results) = Len(calls) - 1
    /\ Len(calls) < Len(Document)
    /\ returned = NONE

\* C3: when every classification succeeds there is exactly one call per
\* sentence, in reading order, and the i-th result carries the i-th
\* sentence and the level of the i-th call.
C3_OneCallPerSentenceInOrder ==
    pc = "returned" =>
        /\ Len(calls) = Len(Document)
        /\ Len(returned) = Len(Document)
        /\ \A i \in 1..Len(Document) :
             /\ calls[i].ok
             /\ calls[i].sentence = Document[i].sentence
             /\ returned[i].sentence = Document[i].sentence
             /\ returned[i].level = calls[i].level

C3_Witness ==
    /\ pc = "returned"
    /\ Len(returned) >= 3
    /\ Len(paragraphs) >= 2
    /\ returned[1].sentence # returned[2].sentence
    /\ returned[1].level # returned[2].level
    /\ returned[1].paragraph = returned[2].paragraph

\* C8: the K non-blank lines are the paragraphs 1..K; in a returned result
\* the paragraph indices never decrease, the results with index k are the
\* sentences of the k-th non-blank line, and every index of 1..K occurs.
C8_DenseParagraphIndices ==
    pc = "returned" =>
        LET lines == NonBlankLines(text)
            K == Len(lines)
        IN  /\ Len(paragraphs) = K
            /\ \A i \in 1..(Len(returned) - 1) :
                 returned[i].paragraph <= returned[i + 1].paragraph
            /\ {returned[i].paragraph : i \in 1..Len(returned)} = 1..K
            /\ \A k \in 1..K :
                 SentencesOf(SelectSeq(returned, LAMBDA r : r.paragraph = k))
                    = split_into_sentences(lines[k])

C8_Witness ==
    /\ pc = "returned"
    /\ Len(NonBlankLines(text)) = 2
    /\ Len(splitlines(text)) > 2
    /\ ~HasContent(splitlines(text)[2])
    /\ Len(returned) = 2
    /\ returned[2].paragraph = 2

(***************************************************************************)
(* _load_few_shot_examples and the prompt.                                 *)
(*                                                                         *)
(* fewshot.json is one of                                                  *)
(*   [state |-> "absent"]      path.exists() is false                      *)
(*   [state |-> "unreadable"]  open() raises                               *)
(*   [state |-> "malformed"]   json.load raises                            *)
(*   [state |-> "json", data |-> v]                                        *)
(* with v a JSON value [type |-> "list", items |-> <<...>>], or of type    *)
(* "object", "number", "string", "null".  An item of type "object" has     *)
(* the fields sentence and level, each ABSENT, JSON_NULL or a value        *)
(* [type |-> "string" or "number", text |-> its str()].                    *)
(***************************************************************************)
MaxItems == 2      \* longest list in fewshot.json

ABSENT == [type |-> "absent"]
JSON_NULL == [type |-> "null"]
PY_NONE == [type |-> "None"]

\* item.get(key): None for a missing key and for a JSON null
DictGet(item, key) ==
    IF item[key] \in {ABSENT, JSON_NULL} THEN PY_NONE ELSE item[key]

\* lines 39-43: the loop over the loaded data; an item without .get raises
RECURSIVE LoadItems(_, _)
LoadItems(items, examples) ==
    IF items = <<>> THEN [raised |-> FALSE, examples |-> examples]
    ELSE LET item == Head(items)
         IN  IF item.type # "object" THEN [raised |-> TRUE, examples |-> examples]
             ELSE LET sentence == DictGet(item, "sentence")
                      level == DictGet(item, "level")
                  IN  IF sentence # PY_NONE /\ level # PY_NONE
                      THEN LoadItems(Tail(items),
                                     examples \o ExampleText(sentence.text, level.text))
                      ELSE LoadItems(Tail(items), examples)

\* lines 24-46.  Iterating a JSON object yields its keys and iterating a
\* string its characters, neither of which has .get; a number or null is not
\* iterable.  Every exception ends in `return ""`.
load_few_shot_examples(file) ==
    IF file.state = "absent" THEN BUILTIN_EXAMPLES
    ELSE IF file.state \in {"unreadable", "malformed"} THEN <<>>
    ELSE IF file.data.type = "list"
         THEN LET r == LoadItems(file.data.items, <<>>)
              IN  IF r.raised THEN <<>> ELSE r.examples
    ELSE <<>>

FieldValues ==
    { ABSENT, JSON_NULL, [type |-> "string", text |-> "s"], [type |-> "number", text |-> "3"] }

Items ==
    [type : {"object"}, sentence : FieldValues, level : FieldValues]
        \cup { [type |-> "number", text |-> "7"], [type |-> "string", text |-> "s"] }

FewShotFiles ==
    { [state |-> "absent"], [state |-> "unreadable"], [state |-> "malformed"] }
        \cup { [state |-> "json", data |-> [type |-> "list", items |-> is]] :
                  is \in Strings(Items, MaxItems) }
        \cup { [state |-> "json", data |-> [type |-> t, size |-> n]] :
                  t \in {"object", "string"}, n \in {0, 1} }
        \cup { [state |-> "json", data |-> [type |-> t]] : t \in {"number", "null"} }

InitFewShot ==
    /\ pc = "import"
    /\ fewshot_file \in FewShotFiles
    /\ FEW_SHOT_EXAMPLES = <<>>
    /\ text = <<>> /\ sentences = <<>> /\ paragraphs = <<>> /\ p_idx = 0 /\ s_idx = 0
    /\ results = <<>> /\ calls = <<>> /\ returned = NONE
    /\ prompt = <<>> /\ output = <<>> /\ prev_output = NONE

\* line 49, at import
LoadFewShot ==
    /\ pc = "import"
    /\ FEW_SHOT_EXAMPLES' = load_few_shot_examples(fewshot_file)
    /\ pc' = "imported"
    /\ UNCHANGED <<text, sentences, paragraphs, p_idx, s_idx, results, calls, returned,
                   fewshot_file, prompt, output, prev_output>>

\* lines 64-67: the user message of a request
BuildPrompt ==
    /\ pc = "imported"
    /\ \E sentence \in {<<"a", ".">>, <<"b">>} :
         prompt' = UserMessage(FEW_SHOT_EXAMPLES, sentence)
    /\ pc' = "prompted"
    /\ UNCHANGED <<text, sentences, paragraphs, p_idx, s_idx, results, calls, returned,
                   fewshot_file, FEW_SHOT_EXAMPLES, output, prev_output>>

NextFewShot == LoadFewShot \/ BuildPrompt

SpecFewShot == InitFewShot /\ [][NextFewShot]_vars

\* the examples a prompt was built with: the prompt without its last four pieces
ExamplesOf(message) == SubSeq(message, 1, Len(message) - 4)

LoadFailed(file) ==
    \/ file.state \in {"unreadable", "malformed"}
    \/ /\ file.state = "json"
       /\ file.data.type = "list"
       /\ \E i \in 1..Len(file.data.items) : file.data.items[i].type # "object"

\* C7: when fewshot.json is absent or fails to load (unreadable, malformed
\* JSON, an entry that is not a record) the examples used in prompts are the
\* 5 built-in ones; in a list of records the entries lacking the sentence or
\* the level are skipped and the others kept.
C7_FallbackToBuiltin ==
    /\ pc # "import" =>
         /\ (fewshot_file.state = "absent" \/ LoadFailed(fewshot_file))
                => FEW_SHOT_EXAMPLES = BUILTIN_EXAMPLES
         /\ (fewshot_file.state = "json" /\ fewshot_file.data.type = "list"
                /\ ~LoadFailed(fewshot_file))
                => Len(FEW_SHOT_EXAMPLES) =
                     6 * Cardinality({i \in 1..Len(fewshot_file.data.items) :
                            /\ fewshot_file.data.items[i].sentence \notin {ABSENT, JSON_NULL}
                            /\ fewshot_file.data.items[i].level \notin {ABSENT, JSON_NULL}})
    /\ pc = "prompted" =>
         /\ ExamplesOf(prompt) = FEW_SHOT_EXAMPLES
         /\ (fewshot_file.state = "absent" \/ LoadFailed(fewshot_file))
                => ExamplesOf(prompt) = BUILTIN_EXAMPLES

(***************************************************************************)
(* _print_ascii_graph.  A printed line is a sequence of characters.        *)
(***************************************************************************)
MaxSentences == 3  \* longest result list with free levels
MaxLevel == 3      \* highest level in those lists
MaxWide == 11      \* longest result list with all levels 1

DigitChar(d) == CHOOSE c \in DIGITS : DigitValue(c) = d

\* str(n) for n >= 0
RECURSIVE str(_)
str(n) == IF n < 10 THEN <<DigitChar(n)>> ELSE str(n \div 10) \o <<DigitChar(n % 10)>>

\* c * n
Repeat(c, n) == [i \in 1..n |-> c]

\* " ".join(parts)
RECURSIVE JoinWithSpace(_)
JoinWithSpace(parts) ==
    IF parts = <<>> THEN <<>>
    ELSE IF Len(parts) = 1 THEN parts[1]
    ELSE parts[1] \o <<" ">> \o JoinWithSpace(Tail(parts))

\* max(levels) if levels else 0
RECURSIVE MaxOf(_)
MaxOf(levels) ==
    IF levels = <<>> THEN 0
    ELSE IF Len(levels) = 1 THEN levels[1]
    ELSE LET m == MaxOf(Tail(levels)) IN IF levels[1] >= m THEN levels[1] ELSE m

\* line 99 with > for >=
CellStrict(val, lvl) == IF val > lvl THEN "#" ELSE " "

\* line 99: "#" if val >= lvl else " "
Cell(val, lvl) == IF val >= lvl THEN "#" ELSE " "

\* lines 97-101: the row of one level
RECURSIVE Cells(_, _)
Cells(levels, lvl) ==
    IF levels = <<>> THEN <<>>
    ELSE <<Cell(Head(levels), lvl), " ">> \o Cells(Tail(levels), lvl)

LevelRow(levels, lvl) == rstrip(str(lvl) \o <<" ", "|", " ">> \o Cells(levels, lvl))

\* lines 96-101: for lvl in range(max_level, 0, -1)
RECURSIVE LevelRows(_, _)
LevelRows(levels, lvl) ==
    IF lvl <= 0 THEN <<>> ELSE <<LevelRow(levels, lvl)>> \o LevelRows(levels, lvl - 1)

\* line 102
DashRow(levels) == Repeat(" ", 4) \o Repeat("-", 2 * Len(levels))

\* line 103
IndexRow(levels) ==
    Repeat(" ", 5) \o JoinWithSpace([i \in 1..Len(levels) |-> str(i)])

\* lines 106-110
RECURSIVE MarkerCells(_, _)
MarkerCells(ps, i) ==
    IF i > Len(ps) THEN <<>>
    ELSE (IF i > 1 /\ ps[i] # ps[i - 1] THEN <<"|", " ">> ELSE <<" ", " ">>)
            \o MarkerCells(ps, i + 1)

\* lines 104-111
MarkerRows(ps) ==
    IF Cardinality({ps[i] : i \in 1..Len(ps)}) > 1
    THEN <<rstrip(Repeat(" ", 5) \o MarkerCells(ps, 1))>>
    ELSE <<>>

print_ascii_graph(rs) ==
    LET levels == [i \in 1..Len(rs) |-> rs[i].level]
        ps == [i \in 1..Len(rs) |-> rs[i].paragraph]
    IN  LevelRows(levels, MaxOf(levels)) \o <<DashRow(levels), IndexRow(levels)>>
            \o MarkerRows(ps)

\* Result lists as analyze_text returns them: the first paragraph is 1 and
\* each result is in its predecessor's paragraph or in the next one.
RECURSIVE ParagraphSeqs(_)
ParagraphSeqs(n) ==
    IF n = 0 THEN {<<>>}
    ELSE IF n = 1 THEN {<<1>>}
    ELSE UNION {{Append(q, q[n - 1]), Append(q, q[n - 1] + 1)} : q \in ParagraphSeqs(n - 1)}

ResultLists(n, Levels) ==
    UNION {{[i \in 1..n |-> [sentence |-> <<"a">>, level |-> ls[i], paragraph |-> q[i]]] :
              ls \in [1..n -> Levels]} : q \in ParagraphSeqs(n)}

GraphInputs ==
    UNION {ResultLists(n, 0..MaxLevel) : n \in 0..MaxSentences}
        \cup UNION {ResultLists(n, {1}) : n \in 0..MaxWide}

InitGraph ==
    /\ pc = "graph"
    /\ results \in GraphInputs
    /\ returned = results
    /\ output = <<>> /\ prev_output = NONE
    /\ text = <<>> /\ sentences = <<>> /\ paragraphs = <<>> /\ p_idx = 0 /\ s_idx = 0
    /\ calls = <<>> /\ fewshot_file = NONE /\ FEW_SHOT_EXAMPLES = <<>> /\ prompt = <<>>

\* lines 143-144: the graph is printed
PrintGraph ==
    /\ pc = "graph"
    /\ output' = print_ascii_graph(results)
    /\ prev_output' = NONE
    /\ pc' = "graphed"
    /\ UNCHANGED <<text, sentences, paragraphs, p_idx, s_idx, results, calls, returned,
                   fewshot_file, FEW_SHOT_EXAMPLES, prompt>>

\* a second call on the same list
PrintGraphAgain ==
    /\ pc = "graphed"
    /\ output' = print_ascii_graph(results)
    /\ prev_output' = output
    /\ pc' = "graphed_twice"
    /\ UNCHANGED <<text, sentences, paragraphs, p_idx, s_idx, results, calls, returned,
                   fewshot_file, FEW_SHOT_EXAMPLES, prompt>>

NextGraph == PrintGraph \/ PrintGraphAgain

SpecGraph == InitGraph /\ [][NextGraph]_vars

(***************************************************************************)
(* Properties of _print_ascii_graph.                                       *)
(***************************************************************************)
LevelsOf(rs) == {rs[i].level : i \in 1..Len(rs)}

HighestLevel(rs) == IF rs = <<>> THEN 0 ELSE SetMax(LevelsOf(rs))

\* line has character c at column col (columns count from 1)
HasAt(line, col, c) == col <= Len(line) /\ line[col] = c

\* line shows the characters of word from column col on
ShowsAt(line, col, word) ==
    /\ col + Len(word) - 1 <= Len(line)
    /\ SubSeq(line, col, col + Len(word) - 1) = word

\* C9: there are exactly M level rows, for lvl = M down to 1; in the row of
\* lvl the cell of position i holds "#" iff L[i] >= lvl; the results are
\* unchanged and a second rendering prints the same lines.
C9_LevelRows ==
    pc \in {"graphed", "graphed_twice"} =>
        LET M == HighestLevel(results)
            N == Len(results)
            multi == Cardinality({results[i].paragraph : i \in 1..N}) > 1
        IN  /\ Len(output) = M + 2 + (IF multi THEN 1 ELSE 0)
            /\ \A k \in 1..M :
                 LET lvl == M - k + 1
                     prefix == str(lvl) \o <<" ", "|", " ">>
                 IN  /\ ShowsAt(output[k], 1, prefix)
                     /\ Len(output[k]) <= Len(prefix) + 2 * N
                     /\ \A i \in 1..N :
                          HasAt(output[k], Len(prefix) + 2 * i - 1, "#")
                             <=> results[i].level >= lvl
                     /\ \A i \in 1..N : ~HasAt(output[k], Len(prefix) + 2 * i, "#")
            /\ ShowsAt(output[M + 1], 1, <<" ", " ", " ", " ">>)
            /\ \A c \in 1..Len(output[M + 1]) : output[M + 1][c] \in {" ", "-"}
            /\ results = returned
            /\ pc = "graphed_twice" => prev_output = output

C9_Witness ==
    /\ pc = "graphed_twice"
    /\ [i \in 1..Len(results) |-> results[i].level] = <<1, 3, 2>>
    /\ Len(output) >= 5
    /\ output[1] = <<"3", " ", "|", " ", " ", " ", "#">>
    /\ output[2] = <<"2", " ", "|", " ", " ", " ", "#", " ", "#">>
    /\ output[3] = <<"1", " ", "|", " ", "#", " ", "#", " ", "#">>

\* first column of the number of position i in the index row
RECURSIVE IndexColumn(_)
IndexColumn(i) == IF i = 1 THEN 6 ELSE IndexColumn(i - 1) + Len(str(i - 1)) + 1

\* C10: a paragraph-boundary row is printed iff the results hold more than
\* one paragraph index; its "|" stand exactly at the positions whose
\* paragraph differs from the previous position's, each in the column of that
\* position's number in the index row, for every number of sentences.
C10_BoundaryMarkersAligned ==
    pc \in {"graphed", "graphed_twice"} =>
        LET M == HighestLevel(results)
            N == Len(results)
            multi == Cardinality({results[i].paragraph : i \in 1..N}) > 1
            index == output[M + 2]
        IN  /\ Len(output) = M + 2 + (IF multi THEN 1 ELSE 0)
            /\ \A i \in 1..N : ShowsAt(index, IndexColumn(i), str(i))
            /\ multi =>
                 LET marker == output[M + 3]
                     changes == {i \in 2..N : results[i].paragraph # results[i - 1].paragraph}
                 IN  /\ \A i \in changes :
                          \E c \in IndexColumn(i)..(IndexColumn(i) + Len(str(i)) - 1) :
                              HasAt(marker, c, "|")
                     /\ Cardinality({c \in 1..Len(marker) : marker[c] = "|"})
                            = Cardinality(changes)

====
